---------------------------- MODULE Spec2Model ----------------------------
(***************************************************************************)
(* A model of csv_plotter.py: the CSVPlotter window, the CSVEventHandler   *)
(* that recomputes and redraws the four plots (plot_data), the UI thread   *)
(* and the watchdog observer thread that both run plot_data.               *)
(*                                                                         *)
(* Real numbers are exact extended rationals: a fraction, or one of IEEE's *)
(* non-finite values (d = 0 with n = 1: +inf, n = -1: -inf, n = 0: nan),   *)
(* which numpy produces instead of raising when it divides by zero.        *)
(* Rounding of binary floating point and the sign of zero are not          *)
(* modelled.                                                               *)
(***************************************************************************)
EXTENDS Integers, Sequences, FiniteSets, TLC

(***************************************************************************)
(* Bounds of the model.                                                    *)
(***************************************************************************)
MinRows == 3            \* shortest file drawn as an input of the transform
MaxRows == 6            \* longest file drawn as an input of the transform
TimeStep == 60          \* seconds between two consecutive rows of a file
MaxPendingDraws == 1    \* canvas.draw calls queued and not yet run
MaxEvents == 1          \* watchdog events queued for the observer thread
Columns == 3            \* columns of a file drawn as an input of the transform

(***************************************************************************)
(* Values of the program.                                                  *)
(***************************************************************************)
None == <<>>                                \* Python's None; Some(x) is <<x>>
Some(x) == <<x>>
NA == [na |-> TRUE, v |-> 0]                \* a missing cell (pandas NaN)
Cell(v) == [na |-> FALSE, v |-> v]          \* a cell holding the number v
TimeUnits == {"s", "min", "hour"}
DiameterUnits == {"mm", "um"}
StrainRateUnits == {"1/s", "1/min", "1/hour", "um/s", "um/min", "um/hour"}
window_length == 5

(***************************************************************************)
(* Extended rational arithmetic.  A number is n/d * 2^e2 * 3^e3 * 5^e5     *)
(* with n and d coprime to each other and to 30, d > 0 (zero is 0/1 with   *)
(* zero exponents), so that the unit factors 60, 1000 and 3600 only move   *)
(* the exponents; d = 0 is a non-finite value.  The form is canonical:     *)
(* two numbers are equal exactly when their records are.                   *)
(***************************************************************************)
Abs(x) == IF x < 0 THEN -x ELSE x

Sign(x) == IF x > 0 THEN 1 ELSE IF x < 0 THEN -1 ELSE 0

Min(x, y) == IF x < y THEN x ELSE y

RECURSIVE GCD(_, _)
GCD(a, b) == IF b = 0 THEN a ELSE GCD(b, a % b)

\* how many times the prime p divides x > 0
RECURSIVE Val(_, _)
Val(x, p) == IF x % p = 0 THEN 1 + Val(x \div p, p) ELSE 0

RECURSIVE Pow(_, _)
Pow(b, k) == IF k = 0 THEN 1 ELSE b * Pow(b, k - 1)

Smooth(v2, v3, v5) == Pow(2, v2) * Pow(3, v3) * Pow(5, v5)

NonFinite(sign) == [n |-> sign, d |-> 0, e2 |-> 0, e3 |-> 0, e5 |-> 0]

QNaN == NonFinite(0)

QZero == [n |-> 0, d |-> 1, e2 |-> 0, e3 |-> 0, e5 |-> 0]

\* the canonical form of n/d * 2^e2 * 3^e3 * 5^e5
Q(n, d, e2, e3, e5) ==
    IF d = 0 THEN NonFinite(Sign(n))
    ELSE IF n = 0 THEN QZero
    ELSE LET g == GCD(Abs(n), Abs(d))
             num == Abs(n) \div g
             den == Abs(d) \div g
             n2 == Val(num, 2)  n3 == Val(num, 3)  n5 == Val(num, 5)
             d2 == Val(den, 2)  d3 == Val(den, 3)  d5 == Val(den, 5)
         IN  [n |-> Sign(n) * Sign(d) * (num \div Smooth(n2, n3, n5)),
              d |-> den \div Smooth(d2, d3, d5),
              e2 |-> e2 + n2 - d2, e3 |-> e3 + n3 - d3, e5 |-> e5 + n5 - d5]

QInt(k) == Q(k, 1, 0, 0, 0)

QFinite(a) == a.d # 0

QNeg(a) == [a EXCEPT !.n = -a.n]

QAdd(a, b) ==
    IF a.d = 0 /\ b.d = 0 THEN (IF a.n = b.n THEN a ELSE QNaN)
    ELSE IF a.d = 0 THEN a
    ELSE IF b.d = 0 THEN b
    ELSE IF a.n = 0 THEN b
    ELSE IF b.n = 0 THEN a
    ELSE LET m2 == Min(a.e2, b.e2)
             m3 == Min(a.e3, b.e3)
             m5 == Min(a.e5, b.e5)
             an == a.n * Smooth(a.e2 - m2, a.e3 - m3, a.e5 - m5)
             bn == b.n * Smooth(b.e2 - m2, b.e3 - m3, b.e5 - m5)
             g == GCD(a.d, b.d)
         IN  Q(an * (b.d \div g) + bn * (a.d \div g), (a.d \div g) * b.d,
               m2, m3, m5)

QSub(a, b) == QAdd(a, QNeg(b))

QMul(a, b) ==
    IF a.d = 0 \/ b.d = 0 THEN NonFinite(Sign(a.n) * Sign(b.n))
    ELSE IF a.n = 0 \/ b.n = 0 THEN QZero
    ELSE LET g1 == GCD(Abs(a.n), b.d)
             g2 == GCD(Abs(b.n), a.d)
         IN  Q((a.n \div g1) * (b.n \div g2), (a.d \div g2) * (b.d \div g1),
               a.e2 + b.e2, a.e3 + b.e3, a.e5 + b.e5)

QInv(a) ==
    IF a.n = 0 THEN (IF a.d = 0 THEN QNaN ELSE NonFinite(1))
    ELSE IF a.d = 0 THEN QZero
    ELSE [n |-> Sign(a.n) * a.d, d |-> Abs(a.n),
          e2 |-> -a.e2, e3 |-> -a.e3, e5 |-> -a.e5]

QDiv(a, b) == QMul(a, QInv(b))

(***************************************************************************)
(* The measurement pipeline of CSVEventHandler.plot_data (lines 530-579).  *)
(* A file is a sequence of rows, a row a sequence of cells, cell 1 the     *)
(* time in seconds and cell 2 the diameter in mm.                          *)
(***************************************************************************)
\* dropna(how='all'): only the rows with no value at all are dropped
dropna_how_all(rows) ==
    SelectSeq(rows, LAMBDA row : \E c \in 1..Len(row) : ~row[c].na)

\* DataFrame.dropna(): the rows without a missing cell, in file order
dropna(rows) == SelectSeq(rows, LAMBDA row : \A c \in 1..Len(row) : ~row[c].na)

\* df.iloc[:, k].values
iloc(df, k) == [i \in 1..Len(df) |-> QInt(df[i][k].v)]

\* the 5-point quadratic least-squares weights (times 35) at the five
\* positions of a window; row 3 is the convolution kernel of the interior,
\* the others are the polynomial fit savgol_filter's mode 'interp' evaluates
\* at the two samples of each edge
SavgolCoeffs ==
    << <<31, 9, -3, -5, 3>>,
       <<9, 13, 12, 6, -5>>,
       <<-3, 12, 17, 12, -3>>,
       <<-5, 6, 12, 13, 9>>,
       <<3, -5, -3, 9, 31>> >>

RECURSIVE QSum(_, _)
QSum(f, k) == IF k = 0 THEN QInt(0) ELSE QAdd(QSum(f, k - 1), f[k])

\* savgol_filter(x, 5, 2) on a series of at least window_length samples
savgol_filter(x) ==
    LET n == Len(x)
        halflen == window_length \div 2
        pos(i) == IF i <= halflen THEN i
                  ELSE IF i > n - halflen THEN window_length - (n - i)
                  ELSE halflen + 1
        first(i) == IF i <= halflen THEN 1
                    ELSE IF i > n - halflen THEN n - window_length + 1
                    ELSE i - halflen
        term(i) == [j \in 1..window_length |->
                       QMul(Q(SavgolCoeffs[pos(i)][j], 35, 0, 0, 0), x[first(i) + j - 1])]
    IN  [i \in 1..n |-> QSum(term(i), window_length)]

\* np.diff(f) / np.diff(x) in the place of np.gradient: one sample fewer
gradient_as_diff(f, x) ==
    [i \in 1..(Len(f) - 1) |-> QDiv(QSub(f[i + 1], f[i]), QSub(x[i + 1], x[i]))]

\* np.gradient(f, x): first-order differences at the two ends, second-order
\* central differences inside, the uniform formula when all steps are equal
gradient(f, x) ==
    LET n == Len(f)
        dx == [i \in 1..(n - 1) |-> QSub(x[i + 1], x[i])]
        uniform == \A i \in 1..(n - 1) : dx[i] = dx[1]
        inner(i) ==
            IF uniform
            THEN QDiv(QSub(f[i + 1], f[i - 1]), QMul(QInt(2), dx[1]))
            ELSE LET dx1 == dx[i - 1]
                     dx2 == dx[i]
                     a == QNeg(QDiv(dx2, QMul(dx1, QAdd(dx1, dx2))))
                     b == QDiv(QSub(dx2, dx1), QMul(dx1, dx2))
                     c == QDiv(dx1, QMul(dx2, QAdd(dx1, dx2)))
                 IN  QAdd(QAdd(QMul(a, f[i - 1]), QMul(b, f[i])), QMul(c, f[i + 1]))
    IN  [i \in 1..n |->
            IF i = 1 THEN QDiv(QSub(f[2], f[1]), dx[1])
            ELSE IF i = n THEN QDiv(QSub(f[n], f[n - 1]), dx[n - 1])
            ELSE inner(i)]

\* lines 539-548: the divisor of the selected time unit
time_factor(time_unit) ==
    IF time_unit = "s" THEN 1 ELSE IF time_unit = "min" THEN 60 ELSE 3600

\* time_converted with the divisor of minutes for hours too
time_converted_hour_as_min(time, time_unit) ==
    IF time_unit = "s" THEN time
    ELSE [i \in 1..Len(time) |-> QDiv(time[i], QInt(60))]

\* lines 540-548
time_converted(time, time_unit) ==
    IF time_unit = "s" THEN time
    ELSE [i \in 1..Len(time) |-> QDiv(time[i], QInt(time_factor(time_unit)))]

\* lines 551-557: the multiplier of the selected diameter unit
diameter_factor(diameter_unit) == IF diameter_unit = "um" THEN 1000 ELSE 1

\* lines 552-556
diameter_converted(diameter_smooth, diameter_unit) ==
    [i \in 1..Len(diameter_smooth) |->
        QMul(diameter_smooth[i], QInt(diameter_factor(diameter_unit)))]

\* lines 554, 557
initial_diameter_converted(initial, diameter_unit) ==
    QMul(QInt(initial), QInt(diameter_factor(diameter_unit)))

\* line 560
diametrical_strain(diam_conv, init_conv) ==
    [i \in 1..Len(diam_conv) |-> QDiv(QSub(diam_conv[i], init_conv), init_conv)]

\* strain_rate_converted with the um/min branch of the um/s one
strain_rate_um_min_as_um_s(strain_rate, time_unit, strain_rate_unit) ==
    LET tf(r) == QMul(r, QInt(time_factor(time_unit)))
        conv(r) ==
            IF strain_rate_unit = "1/s" THEN tf(r)
            ELSE IF strain_rate_unit = "1/min" THEN QMul(tf(r), QInt(60))
            ELSE IF strain_rate_unit = "1/hour" THEN QMul(tf(r), QInt(3600))
            ELSE IF strain_rate_unit = "um/hour"
                 THEN QMul(QMul(tf(r), QInt(1000)), QInt(3600))
            ELSE QMul(tf(r), QInt(1000))
    IN  [i \in 1..Len(strain_rate) |-> conv(strain_rate[i])]

\* lines 565-576: strain_rate * time_factor [* 1000] [* 60 | * 3600]
strain_rate_converted(strain_rate, time_unit, strain_rate_unit) ==
    LET tf(r) == QMul(r, QInt(time_factor(time_unit)))
        conv(r) ==
            IF strain_rate_unit = "1/s" THEN tf(r)
            ELSE IF strain_rate_unit = "1/min" THEN QMul(tf(r), QInt(60))
            ELSE IF strain_rate_unit = "1/hour" THEN QMul(tf(r), QInt(3600))
            ELSE IF strain_rate_unit = "um/s" THEN QMul(tf(r), QInt(1000))
            ELSE IF strain_rate_unit = "um/min"
                 THEN QMul(QMul(tf(r), QInt(1000)), QInt(60))
            ELSE QMul(QMul(tf(r), QInt(1000)), QInt(3600))
    IN  [i \in 1..Len(strain_rate) |-> conv(strain_rate[i])]

\* lines 530-579: what the try block computes from the file, the handler's
\* initial_diameter and the three combo boxes; ok = FALSE when savgol_filter
\* raises ValueError because the series is shorter than its window
transform(rows, initial, time_unit, diameter_unit, strain_rate_unit) ==
    LET df == dropna(rows)
    IN  IF Len(df) < window_length
        THEN [ok |-> FALSE, rows |-> Len(df)]
        ELSE
          LET time == iloc(df, 1)
              diameter == iloc(df, 2)
              diameter_smooth == savgol_filter(diameter)
              tc == time_converted(time, time_unit)
              dc == diameter_converted(diameter_smooth, diameter_unit)
              ic == initial_diameter_converted(initial, diameter_unit)
              ds == diametrical_strain(dc, ic)
              strain_rate == gradient(ds, time)
              src == strain_rate_converted(strain_rate, time_unit, strain_rate_unit)
          IN  [ok |-> TRUE, rows |-> Len(df), reference |-> ic,
               time |-> tc, diameter |-> dc, strain |-> ds, rate |-> src]

\* line 579: the tuple stored in parent.calculated_data
calculated_tuple(r) == <<r.time, r.diameter, r.strain, r.rate>>

(***************************************************************************)
(* Inputs of the model.                                                    *)
(***************************************************************************)
\* what the operator types into a line edit: a number, or text float() rejects
Text(v) == [numeric |-> TRUE, v |-> v]
BadText == [numeric |-> FALSE, v |-> 0]
DiameterTexts == {Text(10), BadText}
RateTexts == {Text(1), BadText}

CsvPath == "data.csv"
OtherPath == "other.tmp"

\* a file of n rows, row i at time (i-1)*TimeStep with the diameter cell cells[i]
FileOf(cells) ==
    [i \in 1..Len(cells) |-> <<Cell((i - 1) * TimeStep), cells[i]>>]

\* the contents the instrument writes while the application runs; the file on
\* disk holds one of them
AppFiles ==
    << FileOf(<<Cell(10), Cell(10), NA, Cell(10), Cell(10)>>),
       FileOf(<<Cell(10), Cell(20), NA, Cell(20), Cell(10), Cell(20)>>) >>

\* the unit selections the operator makes while the application runs: the
\* combo box and the text selected in it
AppUnitChanges == {<<"time_unit", "s">>, <<"time_unit", "min">>}

\* the inputs of a session in which the operator enters several diameters
SessionDiameterTexts == {Text(10), Text(20), BadText}
SessionRateTexts == {Text(1)}
SessionUnitChanges == {<<"time_unit", "min">>}
SessionFiles == {2}

\* the inputs of the transform checked on its own: a diameter profile over
\* n rows, further columns (a reading the plotter does not use) after the
\* time and the diameter, at most one cell of the file missing, a diameter
\* and the units
Profiles == {"zero", "constant", "ramp", "zigzag"}
ProfileCell(profile, i) ==
    CASE profile = "zero" -> Cell(0)
      [] profile = "constant" -> Cell(10)
      [] profile = "ramp" -> Cell(10 * i)
      [] profile = "zigzag" -> Cell(IF i % 2 = 0 THEN 10 ELSE 0)
PureFile(profile, n, row, column) ==
    [i \in 1..n |->
        [c \in 1..Columns |->
            IF i = row /\ c = column THEN NA
            ELSE IF c = 1 THEN Cell((i - 1) * TimeStep)
            ELSE IF c = 2 THEN ProfileCell(profile, i)
            ELSE Cell(i)]]
RefValues == {-10, 0, 10}

Threads == {"ui", "obs"}

(***************************************************************************)
(* State.                                                                  *)
(***************************************************************************)
VARIABLES
    initial_diameter,       \* CSVPlotter.initial_diameter: None or Some(mm)
    manual_refresh_rate,    \* CSVPlotter.manual_refresh_rate: None or Some(ms)
    csv_file,               \* CSVPlotter.csv_file: None or Some(path)
    event_handler,          \* CSVPlotter.event_handler: None or Some(handler)
    observer,               \* CSVPlotter.observer: None or Some([alive, handler])
    timer,                  \* CSVPlotter.timer.isActive()
    calculated_data,        \* CSVPlotter.calculated_data: None or the 4-tuple
    label,                  \* the text of CSVPlotter.label
    time_unit,              \* time_unit_combo.currentText()
    diameter_unit,          \* diameter_unit_combo.currentText()
    strain_rate_unit,       \* strain_rate_unit_combo.currentText()
    figure,                 \* CSVPlotter.figure: the set of its 2x2 axes grids,
                            \* each with the inputs of the series plotted in it
    pending,                \* canvas.draw calls queued by QTimer.singleShot
    file,                   \* the content of the CSV file on disk: an index of AppFiles
    events,                 \* src_path of the events queued in the observer
    pc,                     \* where each thread is inside plot_data
    self_,                  \* the handler whose plot_data each thread runs
    local,                  \* the inputs of plot_data's local series of each thread
    inp,                    \* the input of the transform checked on its own
    out,                    \* its result
    window,                 \* the FullScreenPlot window the operator works in
    ascii                   \* the text file the last ASCII export wrote

plotter == <<initial_diameter, manual_refresh_rate, csv_file, event_handler,
             observer, timer, label>>
combos == <<time_unit, diameter_unit, strain_rate_unit>>
drawing == <<figure, pending>>
threads == <<pc, self_, local>>
pure == <<inp, out>>
exports == <<window, ascii>>
vars == <<plotter, combos, drawing, threads, calculated_data, file, events,
          pure, exports>>

\* CSVPlotter.__init__ and initUI
InitPlotter ==
    /\ initial_diameter = None
    /\ manual_refresh_rate = None
    /\ csv_file = None
    /\ event_handler = None
    /\ observer = None
    /\ timer = FALSE
    /\ calculated_data = None
    /\ label = "Enter values"
    /\ time_unit = "s"
    /\ diameter_unit = "mm"
    /\ strain_rate_unit = "1/s"
    /\ figure = {}
    /\ pending = 0
    /\ events = <<>>
    /\ pc = [t \in Threads |-> "idle"]
    /\ self_ = [t \in Threads |-> None]
    /\ local = [t \in Threads |-> None]
    /\ window = None
    /\ ascii = None

Init ==
    /\ InitPlotter
    /\ file \in DOMAIN AppFiles
    /\ inp = None
    /\ out = None

(***************************************************************************)
(* CSVEventHandler.                                                        *)
(***************************************************************************)
\* __init__: the handler keeps its own copy of the diameter
CSVEventHandler(file_path, initial) ==
    [file_path |-> file_path, initial_diameter |-> initial]

\* plot_data reading self.parent.initial_diameter in the place of its own copy
parent_initial_diameter(h) == initial_diameter

\* self.initial_diameter as plot_data reads it (lines 554, 557)
handler_initial_diameter(h) == h.initial_diameter

\* the calls of plot_data that have begun and not returned
InProgress == {t \in Threads : pc[t] # "idle"}

\* thread t calls h.plot_data()
Call(t, h) ==
    /\ pc' = [pc EXCEPT ![t] = "begin"]
    /\ self_' = [self_ EXCEPT ![t] = Some(h)]
    /\ UNCHANGED local

\* thread t returns from plot_data
Return(t) ==
    /\ pc' = [pc EXCEPT ![t] = "idle"]
    /\ self_' = [self_ EXCEPT ![t] = None]
    /\ local' = [local EXCEPT ![t] = None]

\* lines 525-579, and 613-615 when savgol_filter raises: the figure is cleared
\* and given an empty 2x2 grid before the try block reads the file
Begin(t) ==
    /\ pc[t] = "begin"
    /\ figure' = {[by |-> t, data |-> None]}
    /\ LET h == self_[t][1]
           i == [file |-> file, initial_diameter |-> handler_initial_diameter(h)[1],
                 time_unit |-> time_unit, diameter_unit |-> diameter_unit,
                 strain_rate_unit |-> strain_rate_unit]
           r == transform(AppFiles[i.file], i.initial_diameter, i.time_unit,
                          i.diameter_unit, i.strain_rate_unit)
       IN  IF r.ok
           THEN /\ calculated_data' = calculated_tuple(r)
                /\ local' = [local EXCEPT ![t] = Some(i)]
                /\ pc' = [pc EXCEPT ![t] = "plot"]
                /\ UNCHANGED <<label, self_>>
           ELSE /\ label' = "Plotting error"
                /\ Return(t)
                /\ UNCHANGED calculated_data
    /\ UNCHANGED <<initial_diameter, manual_refresh_rate, csv_file,
                   event_handler, observer, timer, combos, pending, file,
                   events, pure,
                   exports>>

\* lines 581-612: plot the series into axs, label the axes and queue the draw;
\* axs no longer belongs to the figure when another call has cleared it since.
\* QTimer.singleShot called on the observer thread, which runs no Qt event
\* loop, is outside Qt's threading rules: the draw is queued or is lost
Plot(t) ==
    /\ pc[t] = "plot"
    /\ LET mine == [by |-> t, data |-> None]
           done == [by |-> t, data |-> local[t]]
       IN  figure' = IF mine \in figure
                     THEN (figure \ {mine}) \cup {done}
                     ELSE figure
    /\ \/ pending < MaxPendingDraws /\ pending' = pending + 1
       \/ t = "obs" /\ pending' = pending
    /\ Return(t)
    /\ UNCHANGED <<plotter, combos, calculated_data, file, events, pure,
                   exports>>

(***************************************************************************)
(* CSVPlotter: the handlers the UI thread runs, one at a time.             *)
(***************************************************************************)
UiIdle == pc["ui"] = "idle"

\* lines 386-392; float() and int(float()*1000) raise ValueError on bad text
save_inputs(diameter_text, rate_text) ==
    /\ UiIdle
    /\ IF ~diameter_text.numeric
       THEN /\ label' = "Invalid input"
            /\ UNCHANGED <<initial_diameter, manual_refresh_rate>>
       ELSE /\ initial_diameter' = Some(diameter_text.v)
            /\ IF ~rate_text.numeric
               THEN /\ label' = "Invalid input"
                    /\ UNCHANGED manual_refresh_rate
               ELSE /\ manual_refresh_rate' = Some(rate_text.v * 1000)
                    /\ label' = "Values Set"
    /\ UNCHANGED <<csv_file, event_handler, observer, timer, combos, drawing,
                   threads, calculated_data, file, events, pure,
                   exports>>

\* lines 394-404; file_path is what the dialog returns, "" when cancelled
select_csv(file_path) ==
    /\ UiIdle
    /\ IF initial_diameter = None
       THEN /\ label' = "Set values first"
            /\ UNCHANGED <<csv_file, event_handler, threads>>
       ELSE IF file_path = ""
       THEN UNCHANGED <<label, csv_file, event_handler, threads>>
       ELSE /\ csv_file' = Some(file_path)
            /\ label' = "Selected"
            /\ event_handler' = Some(CSVEventHandler(file_path, initial_diameter))
            /\ Call("ui", CSVEventHandler(file_path, initial_diameter))
    /\ UNCHANGED <<initial_diameter, manual_refresh_rate, observer, timer,
                   combos, drawing, calculated_data, file, events, pure,
                   exports>>

\* lines 407-409 and 426-428: observer.stop() and observer.join(); join
\* returns when the observer thread has left the handler it is running
JoinObserver == observer # None /\ observer[1].alive => pc["obs"] = "idle"

\* the observer left running: observer.stop() forgotten
KeptObserver == observer

StoppedObserver ==
    IF observer = None THEN None ELSE Some([observer[1] EXCEPT !.alive = FALSE])

\* lines 406-423
start_auto_refresh ==
    /\ UiIdle
    /\ JoinObserver
    /\ IF csv_file = None
       THEN /\ label' = "No CSV file selected"
            /\ observer' = StoppedObserver
            /\ UNCHANGED <<timer, event_handler, threads>>
       ELSE /\ timer' = FALSE
            /\ event_handler' = Some(CSVEventHandler(csv_file[1], initial_diameter))
            /\ observer' = Some([alive |-> TRUE,
                                 handler |-> CSVEventHandler(csv_file[1], initial_diameter)])
            /\ label' = "Auto-refresh started"
            /\ Call("ui", CSVEventHandler(csv_file[1], initial_diameter))
    /\ events' = <<>>
    /\ UNCHANGED <<initial_diameter, manual_refresh_rate, csv_file, combos,
                   drawing, calculated_data, file, pure,
                   exports>>

\* lines 425-441
start_manual_refresh ==
    /\ UiIdle
    /\ JoinObserver
    /\ observer' = StoppedObserver
    /\ events' = <<>>
    /\ IF manual_refresh_rate = None
       THEN /\ label' = "Set values first"
            /\ UNCHANGED <<timer, event_handler, threads>>
       ELSE IF csv_file = None
       THEN /\ label' = "No CSV file selected"
            /\ UNCHANGED <<timer, event_handler, threads>>
       ELSE /\ event_handler' = Some(CSVEventHandler(csv_file[1], initial_diameter))
            /\ timer' = TRUE
            /\ label' = "Manual refresh started"
            /\ Call("ui", CSVEventHandler(csv_file[1], initial_diameter))
    /\ UNCHANGED <<initial_diameter, manual_refresh_rate, csv_file, combos,
                   drawing, calculated_data, file, pure,
                   exports>>

\* lines 443-445
manual_refresh ==
    IF csv_file # None /\ event_handler # None
    THEN Call("ui", event_handler[1])
    ELSE UNCHANGED threads

\* line 248: the timer's timeout signal
timeout ==
    /\ UiIdle
    /\ timer
    /\ manual_refresh
    /\ UNCHANGED <<plotter, combos, drawing, calculated_data, file, events, pure,
                   exports>>

\* lines 304, 310, 316: currentTextChanged of a unit combo box, emitted when
\* the operator selects a text other than the current one
unit_changed(combo, u) ==
    /\ UiIdle
    /\ u # (CASE combo = "time_unit" -> time_unit
              [] combo = "diameter_unit" -> diameter_unit
              [] combo = "strain_rate_unit" -> strain_rate_unit)
    /\ time_unit' = IF combo = "time_unit" THEN u ELSE time_unit
    /\ diameter_unit' = IF combo = "diameter_unit" THEN u ELSE diameter_unit
    /\ strain_rate_unit' = IF combo = "strain_rate_unit" THEN u ELSE strain_rate_unit
    /\ manual_refresh
    /\ UNCHANGED <<plotter, drawing, calculated_data, file, events, pure,
                   exports>>

\* lines 476-487: update_scale and update_range store the axis setting, which
\* plot_data applies to the axes (lines 587-596), and refresh
update_scale ==
    /\ UiIdle
    /\ manual_refresh
    /\ UNCHANGED <<plotter, combos, drawing, calculated_data, file, events, pure,
                   exports>>

\* line 612: the queued self.parent.canvas.draw runs in the UI event loop and
\* renders the figure as it is then
draw ==
    /\ UiIdle
    /\ pending > 0
    /\ pending' = pending - 1
    /\ UNCHANGED <<plotter, combos, figure, threads, calculated_data, file,
                   events, pure,
                   exports>>

(***************************************************************************)
(* ASCII export and the full-screen windows (UI thread).                   *)
(***************************************************************************)
ExportPaths == {"", "out.txt"}
AxIndices == {"Plot 1"}
ExportDiameterTexts == {Text(10)}
ExportRateTexts == {Text(1)}

\* lines 133 and 506: the header line, each column title with its unit
Header(tu, du, su) ==
    << <<"Time", tu>>, <<"Diameter", du>>,
       <<"Diametrical Strain", "unitless">>, <<"Strain Rate", su>> >>

\* zip(*calculated_data): one row per sample, up to the shortest series
zip(data) ==
    LET n == CHOOSE m \in {Len(data[k]) : k \in 1..4} :
                 \A k \in 1..4 : m <= Len(data[k])
    IN  [j \in 1..n |-> <<data[1][j], data[2][j], data[3][j], data[4][j]>>]

\* lines 502-508 and 130-136: the file the export writes
AsciiFile(tu, du, su, data) == [header |-> Header(tu, du, su), rows |-> zip(data)]

\* lines 496-510; file_path is what the save dialog returns, "" when cancelled
export_to_ascii(file_path) ==
    /\ UiIdle
    /\ IF calculated_data = None
       THEN label' = "No data available to export!" /\ UNCHANGED ascii
       ELSE IF file_path = ""
       THEN UNCHANGED <<label, ascii>>
       ELSE /\ ascii' = Some(AsciiFile(time_unit, diameter_unit, strain_rate_unit,
                                       calculated_data))
            /\ label' = "Data exported"
    /\ UNCHANGED <<initial_diameter, manual_refresh_rate, csv_file, event_handler,
                   observer, timer, combos, drawing, threads, calculated_data,
                   file, events, pure, window>>

\* FullScreenPlot.__init__ (lines 23-108): the window keeps the tuple it is
\* given; a window of one plot has unit combo boxes of its own, set to the
\* root window's selection, the window of all four plots has none
FullScreenPlot(ax_index, data) ==
    [ax_index |-> ax_index,
     calculated_data |-> data,
     time_unit |-> IF ax_index = "All" THEN None ELSE Some(time_unit),
     diameter_unit |-> IF ax_index = "All" THEN None ELSE Some(diameter_unit),
     strain_rate_unit |-> IF ax_index = "All" THEN None ELSE Some(strain_rate_unit)]

\* lines 447-449
open_fullscreen_plot ==
    /\ UiIdle
    /\ window' = Some(FullScreenPlot("All", calculated_data))
    /\ UNCHANGED <<plotter, combos, drawing, threads, calculated_data, file,
                   events, pure, ascii>>

\* lines 451-474: a double click inside one of the axes of the figure
double_click_plot(ax_index) ==
    /\ UiIdle
    /\ figure # {}
    /\ window' = Some(FullScreenPlot(ax_index, calculated_data))
    /\ UNCHANGED <<plotter, combos, drawing, threads, calculated_data, file,
                   events, pure, ascii>>

\* lines 149-172: a double click in the window of all four plots, which shows
\* the figure of the main window, opens the window of one plot
window_double_click_plot(ax_index) ==
    /\ UiIdle
    /\ window # None
    /\ window[1].ax_index = "All"
    /\ figure # {}
    /\ window' = Some(FullScreenPlot(ax_index, window[1].calculated_data))
    /\ UNCHANGED <<plotter, combos, drawing, threads, calculated_data, file,
                   events, pure, ascii>>

\* lines 78, 85, 92 and 205-237: currentTextChanged of a unit combo of the
\* window runs update_plot, which plots the stored series again under the
\* new axis labels
window_unit_changed(combo, u) ==
    /\ UiIdle
    /\ window # None
    /\ window[1].ax_index # "All"
    /\ window[1][combo] # Some(u)
    /\ window' = Some([window[1] EXCEPT ![combo] = Some(u)])
    /\ UNCHANGED <<plotter, combos, drawing, threads, calculated_data, file,
                   events, pure, ascii>>

\* lines 126-137
window_export_to_ascii(file_path) ==
    /\ UiIdle
    /\ window # None
    /\ LET w == window[1]
           own == w.ax_index # "All"
       IN  IF w.calculated_data = None \/ file_path = ""
           THEN UNCHANGED ascii
           ELSE ascii' = Some(AsciiFile(
                    IF own THEN w.time_unit[1] ELSE time_unit,
                    IF own THEN w.diameter_unit[1] ELSE diameter_unit,
                    IF own THEN w.strain_rate_unit[1] ELSE strain_rate_unit,
                    w.calculated_data))
    /\ UNCHANGED <<plotter, combos, drawing, threads, calculated_data, file,
                   events, pure, window>>

(***************************************************************************)
(* The watchdog observer thread and the instrument.                        *)
(***************************************************************************)
ObserverAlive == observer # None /\ observer[1].alive

\* lines 519-522: the observer thread takes the next event to its handler
on_modified ==
    /\ ObserverAlive
    /\ pc["obs"] = "idle"
    /\ events # <<>>
    /\ events' = Tail(events)
    /\ IF Head(events) = observer[1].handler.file_path
       THEN Call("obs", observer[1].handler)
       ELSE UNCHANGED threads
    /\ UNCHANGED <<plotter, combos, drawing, calculated_data, file, pure,
                   exports>>

\* a change in the watched folder: the observer, when running, queues an event
Notify(src_path) ==
    IF ObserverAlive
    THEN Len(events) < MaxEvents /\ events' = Append(events, src_path)
    ELSE UNCHANGED events

\* the instrument rewrites the CSV file
FileWritten(rows) ==
    /\ file' = rows
    /\ Notify(CsvPath)
    /\ UNCHANGED <<plotter, combos, drawing, threads, calculated_data, pure,
                   exports>>

\* another file of the folder changes
OtherFileWritten ==
    /\ ObserverAlive
    /\ Notify(OtherPath)
    /\ UNCHANGED <<plotter, combos, drawing, threads, calculated_data, file, pure,
                   exports>>

(***************************************************************************)
(* The application.                                                        *)
(***************************************************************************)
App(diameter_texts, rate_texts, unit_changes, files) ==
    \/ \E d \in diameter_texts, r \in rate_texts : save_inputs(d, r)
    \/ \E p \in {"", CsvPath} : select_csv(p)
    \/ start_auto_refresh
    \/ start_manual_refresh
    \/ timeout
    \/ \E c \in unit_changes : unit_changed(c[1], c[2])
    \/ update_scale
    \/ draw
    \/ on_modified
    \/ \E rows \in files : FileWritten(rows)
    \/ OtherFileWritten
    \/ \E t \in Threads : Begin(t) \/ Plot(t)

Next == App(DiameterTexts, RateTexts, AppUnitChanges, DOMAIN AppFiles)

Spec == Init /\ [][Next]_vars

\* the same application, the operator entering several diameters
InitSession ==
    /\ InitPlotter
    /\ file \in SessionFiles
    /\ inp = None
    /\ out = None

NextSession ==
    App(SessionDiameterTexts, SessionRateTexts, SessionUnitChanges, SessionFiles)

SpecSession == InitSession /\ [][NextSession]_vars

\* the application with its exports and full-screen windows, the operator
\* refreshing by selecting the file and the units
InitExport ==
    /\ InitPlotter
    /\ file \in DOMAIN AppFiles
    /\ inp = None
    /\ out = None

NextExport ==
    \/ \E d \in ExportDiameterTexts, r \in ExportRateTexts : save_inputs(d, r)
    \/ \E p \in {"", CsvPath} : select_csv(p)
    \/ \E c \in AppUnitChanges : unit_changed(c[1], c[2])
    \/ draw
    \/ \E rows \in DOMAIN AppFiles : FileWritten(rows)
    \/ \E t \in Threads : Begin(t) \/ Plot(t)
    \/ \E p \in ExportPaths : export_to_ascii(p)
    \/ open_fullscreen_plot
    \/ \E a \in AxIndices : double_click_plot(a)
    \/ \E a \in AxIndices : window_double_click_plot(a)
    \/ \E c \in AppUnitChanges : window_unit_changed(c[1], c[2])
    \/ \E p \in ExportPaths : window_export_to_ascii(p)

SpecExport == InitExport /\ [][NextExport]_vars

(***************************************************************************)
(* The transform on its own: plot_data's computation applied to one input. *)
(***************************************************************************)
InitPure ==
    /\ InitPlotter
    /\ file = 1
    /\ \E profile \in Profiles, n \in MinRows..MaxRows, column \in 1..Columns,
          r \in RefValues, tu \in TimeUnits, du \in DiameterUnits,
          su \in StrainRateUnits :
         \E row \in 0..n :
            inp = Some([rows |-> PureFile(profile, n, row, column),
                        initial_diameter |-> r, time_unit |-> tu,
                        diameter_unit |-> du, strain_rate_unit |-> su])
    /\ out = None

Apply ==
    /\ out = None
    /\ out' = Some(transform(inp[1].rows, inp[1].initial_diameter, inp[1].time_unit,
                             inp[1].diameter_unit, inp[1].strain_rate_unit))
    /\ UNCHANGED <<plotter, combos, drawing, threads, calculated_data, file,
                   events, inp, exports>>

NextPure == Apply

SpecPure == InitPure /\ [][NextPure]_vars

(***************************************************************************)
(* The claims.  A step of thread t from "begin" is the body of its         *)
(* plot_data call up to the stored tuple: to "plot" when the transform     *)
(* succeeded, to "idle" when it raised.                                    *)
(***************************************************************************)
Succeeds(t) == pc[t] = "begin" /\ pc'[t] = "plot"

Fails(t) == pc[t] = "begin" /\ pc'[t] = "idle"

\* the rows of a file that have both a time and a diameter
CleanRows(rows) ==
    Cardinality({k \in 1..Len(rows) : ~rows[k][1].na /\ ~rows[k][2].na})

\* the series the figure shows
PlottedContent(fig) == {g.data : g \in {h \in fig : h.data # None}}

\* the tables of the claims
Divisor(unit) == CASE unit = "s" -> 1 [] unit = "min" -> 60 [] unit = "hour" -> 3600

RateMultiplier(unit) ==
    CASE unit = "1/s" -> 1
      [] unit = "1/min" -> 60
      [] unit = "1/hour" -> 3600
      [] unit = "um/s" -> 1000
      [] unit = "um/min" -> 1000 * 60
      [] unit = "um/hour" -> 1000 * 3600

\* C1: a plot_data call that fails leaves the figure's plotted content and
\* calculated_data as they were and puts the error in the status label.
C1_FailedCallKeepsRenderedState ==
    [][\A t \in Threads :
          Fails(t) => /\ PlottedContent(figure') = PlottedContent(figure)
                      /\ calculated_data' = calculated_data
                      /\ label' = "Plotting error"]_vars

\* C2: a call whose file has fewer than 5 rows left after the incomplete rows
\* are dropped ends in the error outcome, shown in the status label, and
\* neither stores nor plots a derived series.
C2_TooFewRowsIsAnError ==
    [][\A t \in Threads :
          pc[t] = "begin" /\ pc'[t] # "begin" /\ CleanRows(AppFiles[file]) < 5
          => /\ pc'[t] = "idle"
             /\ label' = "Plotting error"
             /\ calculated_data' = calculated_data
             /\ local'[t] = None
             /\ \A g \in figure' : g.data = None]_vars

\* a call has failed on a file of 4 complete rows while the series of an
\* earlier call are still stored
C2_Witness ==
    /\ label = "Plotting error"
    /\ CleanRows(AppFiles[file]) = 4
    /\ calculated_data # None

\* C3: with a reference diameter that is zero or negative the transform
\* fails and produces no series.
C3_NonPositiveReferenceIsAnError ==
    out # None /\ inp[1].initial_diameter <= 0 => ~out[1].ok

\* C4: at no point are two plot_data calls in progress.
C4_CallsNeverOverlap == Cardinality(InProgress) <= 1

\* C5: no canvas draw renders a figure that a plot_data call running on the
\* observer thread has cleared and not yet plotted into.
C5_DrawNeverSeesClearedFigure ==
    [][pending' < pending
       => ~(pc["obs"] = "plot" /\ [by |-> "obs", data |-> None] \in figure)]_vars

C7_SeriesOfOneInvocation ==
    [][/\ calculated_data' # None
          => \A k \in 1..4 : Len(calculated_data'[k]) = Len(calculated_data'[1])
       /\ \A t \in Threads :
             Succeeds(t)
             => LET i == local'[t][1]
                    df == dropna(AppFiles[file])
                    ref == QInt(i.initial_diameter
                                * (IF diameter_unit = "um" THEN 1000 ELSE 1))
                    series == calculated_data'
                IN  /\ i.file = file
                    /\ \A k \in 1..4 : Len(series[k]) = CleanRows(AppFiles[file])
                    /\ \A j \in 1..Len(series[1]) :
                          /\ QMul(series[1][j], QInt(Divisor(time_unit)))
                               = QInt(df[j][1].v)
                          /\ series[3][j] = QDiv(QSub(series[2][j], ref), ref)]_vars

\* a call has stored series of 5 samples computed from a file of 6 rows
C7_Witness ==
    \E t \in Threads :
        /\ pc[t] = "plot"
        /\ calculated_data # None
        /\ Len(calculated_data[4]) = 5
        /\ Len(AppFiles[local[t][1].file]) = 6

\* the input of the transform applied on its own, and its cleaned rows
Input == inp[1]

Cleaned == dropna(Input.rows)

Done == out # None /\ out[1].ok

\* C8: the converted strain rate is the gradient of the strain over the
\* unconverted time, times time_factor, times the multiplier of the
\* strain-rate unit.
C8_StrainRateMultipliers ==
    Done =>
      LET base == gradient(out[1].strain, iloc(Cleaned, 1))
          m == QMul(QInt(Divisor(Input.time_unit)),
                    QInt(RateMultiplier(Input.strain_rate_unit)))
      IN  /\ Len(out[1].rate) = Len(base)
          /\ \A i \in 1..Len(base) : out[1].rate[i] = QMul(base[i], m)

\* a finite, non-zero rate in um/hour over a time axis in hours
C8_Witness ==
    /\ Done
    /\ Input.time_unit = "hour"
    /\ Input.strain_rate_unit = "um/hour"
    /\ \E i \in 1..Len(out[1].rate) :
          QFinite(out[1].rate[i]) /\ out[1].rate[i] # QZero

\* converted_time is the time of the cleaned rows over the unit's divisor
TimeIsDivided ==
    /\ Len(out[1].time) = Len(Cleaned)
    /\ \A i \in 1..Len(Cleaned) :
          QMul(out[1].time[i], QInt(Divisor(Input.time_unit))) = QInt(Cleaned[i][1].v)

RawTime == [i \in 1..Len(Cleaned) |-> Cleaned[i][1].v]

\* C9 as claimed: for every raw time series the transform returns the time
\* over the divisor, and raw time [0,60,120] in min gives [0,1,2].
C9_ConvertedTimeOfEveryInput ==
    out # None =>
      /\ out[1].ok
      /\ TimeIsDivided
      /\ RawTime = <<0, 60, 120>> /\ Input.time_unit = "min"
         => out[1].time = <<QInt(0), QInt(1), QInt(2)>>

\* C9 as amended: for every raw time series of at least 5 complete rows the
\* transform returns the time over the divisor, and raw time
\* [0,60,120,180,240] in min gives [0,1,2,3,4].
C9_ConvertedTime ==
    Done =>
      /\ TimeIsDivided
      /\ RawTime = <<0, 60, 120, 180, 240>> /\ Input.time_unit = "min"
         => out[1].time = <<QInt(0), QInt(1), QInt(2), QInt(3), QInt(4)>>

\* the transform has converted [0,60,120,180,240] to minutes
C9_Witness ==
    /\ Done
    /\ RawTime = <<0, 60, 120, 180, 240>>
    /\ Input.time_unit = "min"
    /\ out[1].time[5] = QInt(4)

\* C10: the strain is (diameter - reference) / reference, both in the
\* selected unit, and is exactly 0 where the smoothed diameter is the
\* reference diameter.
C10_StrainFormula ==
    Done =>
      LET smooth == savgol_filter(iloc(Cleaned, 2))
          m == QInt(IF Input.diameter_unit = "um" THEN 1000 ELSE 1)
          ref == QMul(QInt(Input.initial_diameter), m)
      IN  \A i \in 1..Len(smooth) :
             /\ out[1].strain[i] = QDiv(QSub(QMul(smooth[i], m), ref), ref)
             /\ smooth[i] = QInt(Input.initial_diameter) => out[1].strain[i] = QZero

\* C11: every ASCII export, of the main window or of a full-screen window,
\* writes one row per sample of the series computed last, under a header
\* whose units are those the rows were computed in: the rows are the series
\* of some file content under the units of the header.
C11_ExportHeaderMatchesData ==
    [][ascii' # ascii
       => LET a == ascii'[1]
          IN  /\ a.rows = zip(calculated_data)
              /\ \E f \in DOMAIN AppFiles, d \in ExportDiameterTexts :
                    LET r == transform(AppFiles[f], d.v, a.header[1][2],
                                       a.header[2][2], a.header[4][2])
                        column(k) == [j \in 1..Len(a.rows) |-> a.rows[j][k]]
                    IN  /\ r.ok
                        /\ column(1) = r.time
                        /\ column(2) = r.diameter
                        /\ column(3) = r.strain
                        /\ column(4) = r.rate]_vars

\* the rows of the input that have both a time and a diameter, in file order
Kept == SelectSeq(Input.rows, LAMBDA row : ~row[1].na /\ ~row[2].na)

\* C12: the transform works on exactly the rows whose time and diameter are
\* both present, in file order; a value missing in another column drops no
\* row.
C12_DropsOnlyMissingTimeOrDiameter ==
    out # None =>
      /\ out[1].rows = Len(Kept)
      /\ out[1].ok
         => \A i \in 1..Len(Kept) :
               QMul(out[1].time[i], QInt(Divisor(Input.time_unit))) = QInt(Kept[i][1].v)

\* C14: the refresh timer and a running observer are never both active.
C14_RefreshModesExclusive == ~(timer /\ ObserverAlive)

\* the timer runs after start_manual_refresh has stopped the observer that
\* start_auto_refresh had started
C14_Witness == timer /\ observer # None /\ ~observer[1].alive

\* C15: a save_inputs call that reports invalid input leaves initial_diameter
\* and manual_refresh_rate as they were.
C15_SaveInputsAllOrNothing ==
    [][label' = "Invalid input"
       => /\ initial_diameter' = initial_diameter
          /\ manual_refresh_rate' = manual_refresh_rate]_vars

=============================================================================
